---- MODULE Spec2Model ----
(***************************************************************************)
(* smallnum: compile-time selection of the narrowest integer primitive for *)
(* a bound, its runtime label, and the checked conversions to and from the *)
(* host's native integer.                                                  *)
(*                                                                         *)
(* Integers are modelled at their real width as little-endian sequences of *)
(* bytes (two's complement for the signed family), so that the `as` casts  *)
(* of the source are zero extension, sign extension and truncation, and    *)
(* the comparisons are the comparisons of the machine.                     *)
(***************************************************************************)
EXTENDS Integers, Sequences, FiniteSets

VARIABLES host, op, rung, arg, res, bound

vars == <<host, op, rung, arg, res, bound>>

(* Neighbourhood of every rung boundary from which inputs are drawn. *)
Delta == 2

\* ------------------------------------------------------------------------
\* Machine integers
\* ------------------------------------------------------------------------

(* The ladder: rung 1..5 are the 8, 16, 32, 64 and 128 bit primitives;     *)
(* 0 is the host-native variant of the label enums (declared first).       *)
Rungs == 1..5

USIZE == 0
U8 == 1
U16 == 2
U32 == 3
U64 == 4
U128 == 5

ISIZE == 0
I8 == 1
I16 == 2
I32 == 3
I64 == 4
I128 == 5

(* Size in bytes of the primitive of rung r: 1, 2, 4, 8, 16. *)
Bytes(r) == 2 ^ (r - 1)

(* target_pointer_width values the cfg attributes name. *)
PointerWidths == {16, 32, 64, 128}

(* Size in bytes of usize / isize on a host of pointer width h. *)
NativeBytes(h) == h \div 8

Fill(n, b) == [i \in 1..n |-> b]

(* core::uN::MAX, core::iN::MAX, core::iN::MIN for a primitive of n bytes. *)
UMax(n) == Fill(n, 255)
IMax(n) == [i \in 1..n |-> IF i = n THEN 127 ELSE 255]
IMin(n) == [i \in 1..n |-> IF i = n THEN 128 ELSE 0]

IsNeg(x) == x[Len(x)] >= 128

(* `x as T` for an unsigned x and a T of n bytes: zero extension when      *)
(* widening, truncation to the low bytes when narrowing.                   *)
AsFromUnsigned(x, n) ==
    [i \in 1..n |-> IF i <= Len(x) THEN x[i] ELSE 0]

(* `x as T` for a signed x and a T of n bytes: sign extension when         *)
(* widening, truncation to the low bytes when narrowing.                   *)
AsFromSigned(x, n) ==
    [i \in 1..n |-> IF i <= Len(x) THEN x[i]
                    ELSE IF IsNeg(x) THEN 255 ELSE 0]

RECURSIVE ULeAt(_, _, _)
ULeAt(a, b, i) ==
    IF i = 0 THEN TRUE
    ELSE IF a[i] < b[i] THEN TRUE
    ELSE IF a[i] > b[i] THEN FALSE
    ELSE ULeAt(a, b, i - 1)

(* a <= b on two unsigned integers of the same width. *)
ULe(a, b) == ULeAt(a, b, Len(a))

(* a <= b on two signed integers of the same width. *)
ILe(a, b) == IF IsNeg(a) # IsNeg(b) THEN IsNeg(a) ELSE ULeAt(a, b, Len(a))

\* ------------------------------------------------------------------------
\* Input values
\* ------------------------------------------------------------------------

Inc(x) == [i \in 1..Len(x) |->
             IF \A j \in 1..(i - 1) : x[j] = 255 THEN (x[i] + 1) % 256 ELSE x[i]]
Dec(x) == [i \in 1..Len(x) |->
             IF \A j \in 1..(i - 1) : x[j] = 0 THEN (x[i] + 255) % 256 ELSE x[i]]
Neg(x) == Inc([i \in 1..Len(x) |-> 255 - x[i]])

RECURSIVE AddSmall(_, _)
AddSmall(x, d) ==
    IF d = 0 THEN x
    ELSE IF d > 0 THEN AddSmall(Inc(x), d - 1)
    ELSE AddSmall(Dec(x), d + 1)

(* -x - 1 in two's complement: every bit of x inverted. *)
Complement(x) == [i \in 1..Len(x) |-> 255 - x[i]]

(* The literals of the crate's tests and examples. *)
UnsignedLiterals ==
    { <<100>>, <<200>>, <<44, 1>>, <<244, 1>>, <<0, 2>>, <<0, 8>>,
      <<160, 134, 1>>, <<0, 203, 76, 0, 1>>,
      <<0, 0, 186, 152, 251, 51, 189, 0, 1>> }
SignedLiterals ==
    { <<100>>, <<150, 0>>, <<244, 1>>, <<136, 19>>, <<80, 195, 0>>,
      <<0, 86, 33, 131, 0>>, <<0, 0, 34, 251, 185, 60, 16, 129, 0>> }

(* Values of an unsigned primitive of n bytes: every rung boundary that    *)
(* fits and its neighbours, zero and its successors, the literals.         *)
UValues(n) ==
    { AddSmall(AsFromUnsigned(UMax(Bytes(r)), n), d) :
        r \in {q \in Rungs : Bytes(q) <= n}, d \in (-Delta)..Delta }
    \cup { AddSmall(Fill(n, 0), d) : d \in 0..Delta }
    \cup { AsFromUnsigned(t, n) : t \in {u \in UnsignedLiterals : Len(u) <= n} }

(* Values of a signed primitive of n bytes: the MIN and MAX of every rung  *)
(* that fits and their neighbours, zero and its neighbours, the literals   *)
(* and their negations.                                                    *)
IValues(n) ==
    { AddSmall(AsFromSigned(IMax(Bytes(r)), n), d) :
        r \in {q \in Rungs : Bytes(q) <= n}, d \in (-Delta)..Delta }
    \cup { AddSmall(AsFromSigned(IMin(Bytes(r)), n), d) :
        r \in {q \in Rungs : Bytes(q) <= n}, d \in (-Delta)..Delta }
    \cup { AddSmall(Fill(n, 0), d) : d \in (-Delta)..Delta }
    \cup { AsFromSigned(t, n) : t \in {u \in SignedLiterals : Len(u) <= n} }
    \cup { Neg(AsFromSigned(t, n)) : t \in {u \in SignedLiterals : Len(u) <= n} }

\* ------------------------------------------------------------------------
\* Results
\* ------------------------------------------------------------------------

NoResult == [kind |-> "none", rung |-> 0, val |-> <<>>]
Type(r) == [kind |-> "type", rung |-> r, val |-> <<>>]
Label(r) == [kind |-> "label", rung |-> r, val |-> <<>>]
Value(x) == [kind |-> "value", rung |-> 0, val |-> x]
Panic == [kind |-> "panic", rung |-> 0, val |-> <<>>]
CompileError == [kind |-> "compile_error", rung |-> 0, val |-> <<>>]

(* #[derive(Ord, PartialOrd)] on the label enums: variants compare in      *)
(* declaration order, USIZE/ISIZE first, then 8, 16, 32, 64, 128.          *)
LabelLe(a, b) == a.rung <= b.rung

\* ------------------------------------------------------------------------
\* unsigned.rs
\* ------------------------------------------------------------------------

(* FITS_U with each limit taken from the next wider primitive. *)
FITS_U_NextMax(max, r) ==
    ULe(AsFromUnsigned(max, 16),
        AsFromUnsigned(UMax(Bytes(IF r < 5 THEN r + 1 ELSE r)), 16))

(* FITS_U with the comparison made strict. *)
FITS_U_Strict(max, r) ==
    ~ULe(AsFromUnsigned(UMax(Bytes(r)), 16), AsFromUnsigned(max, 16))

(* The five const-generic arguments small_unsigned! computes for a bound   *)
(* max held in a usize: ($max as u128) <= (core::uN::MAX as u128).         *)
FITS_U(max, r) ==
    ULe(AsFromUnsigned(max, 16), AsFromUnsigned(UMax(Bytes(r)), 16))

(* ShrinkUnsigned without the impl that selects u64. *)
ShrinkUnsigned_NoU64(v) ==
    CASE v = <<TRUE, TRUE, TRUE, TRUE, TRUE>> -> Type(U8)
      [] v = <<FALSE, TRUE, TRUE, TRUE, TRUE>> -> Type(U16)
      [] v = <<FALSE, FALSE, TRUE, TRUE, TRUE>> -> Type(U32)
      [] v = <<FALSE, FALSE, FALSE, FALSE, TRUE>> -> Type(U128)
      [] OTHER -> CompileError

(* The impls of ShrinkUnsigned for (): the associated UnsignedType of the  *)
(* impl keyed on the vector, a compile error where no impl exists.         *)
ShrinkUnsigned(v) ==
    CASE v = <<TRUE, TRUE, TRUE, TRUE, TRUE>> -> Type(U8)
      [] v = <<FALSE, TRUE, TRUE, TRUE, TRUE>> -> Type(U16)
      [] v = <<FALSE, FALSE, TRUE, TRUE, TRUE>> -> Type(U32)
      [] v = <<FALSE, FALSE, FALSE, TRUE, TRUE>> -> Type(U64)
      [] v = <<FALSE, FALSE, FALSE, FALSE, TRUE>> -> Type(U128)
      [] OTHER -> CompileError

(* The const-generic argument list of the macro's expansion. *)
UnsignedVector(max) ==
    <<FITS_U(max, U8), FITS_U(max, U16), FITS_U(max, U32),
      FITS_U(max, U64), FITS_U(max, U128)>>

small_unsigned(max) == ShrinkUnsigned(UnsignedVector(max))

(* UnsignedLabelCond with the comparison made strict. *)
UnsignedLabelCond_Strict(num, n) ==
    ~ULe(AsFromUnsigned(UMax(n), 16), AsFromUnsigned(num, 16))

(* A branch condition of SmallUnsignedLabel::new, for the primitive of n   *)
(* bytes: (num as u128) <= (core::uN::MAX as u128).                        *)
UnsignedLabelCond(num, n) ==
    ULe(AsFromUnsigned(num, 16), AsFromUnsigned(UMax(n), 16))

(* SmallUnsignedLabel::new returning USIZE where the host's own width is   *)
(* needed (the TODO above the impl).                                       *)
SmallUnsignedLabelNew_HostWidth(num) ==
    IF UnsignedLabelCond(num, 1) THEN Label(U8)
    ELSE IF Len(num) > 1 /\ num[Len(num)] # 0 THEN Label(USIZE)
    ELSE IF UnsignedLabelCond(num, 2) THEN Label(U16)
    ELSE IF UnsignedLabelCond(num, 4) THEN Label(U32)
    ELSE IF UnsignedLabelCond(num, 8) THEN Label(U64)
    ELSE Label(U128)

(* SmallUnsignedLabel::new with the labels of its second and third branch *)
(* exchanged.                                                             *)
SmallUnsignedLabelNew_Exchanged(num) ==
    IF UnsignedLabelCond(num, 1) THEN Label(U8)
    ELSE IF UnsignedLabelCond(num, 2) THEN Label(U32)
    ELSE IF UnsignedLabelCond(num, 4) THEN Label(U16)
    ELSE IF UnsignedLabelCond(num, 8) THEN Label(U64)
    ELSE Label(U128)

SmallUnsignedLabelNew(num) ==
    IF UnsignedLabelCond(num, 1) THEN Label(U8)
    ELSE IF UnsignedLabelCond(num, 2) THEN Label(U16)
    ELSE IF UnsignedLabelCond(num, 4) THEN Label(U32)
    ELSE IF UnsignedLabelCond(num, 8) THEN Label(U64)
    ELSE Label(U128)

(* <usize as SmallUnsigned>::usize(&self). *)
NativeUsize(self) == Value(self)

(* <usize as SmallUnsigned>::checked_from with the body of the u32 impl. *)
NativeUnsignedCheckedFrom_AsU32(num) ==
    IF ULe(num, AsFromUnsigned(UMax(4), Len(num)))
    THEN Value(AsFromUnsigned(AsFromUnsigned(num, 4), Len(num)))
    ELSE Panic

(* <usize as SmallUnsigned>::checked_from(num). *)
NativeUnsignedCheckedFrom(num) == Value(num)

(* UnsignedImplCfg with the cfg attributes dropped. *)
UnsignedImplCfg_All(r) == PointerWidths

(* The pointer widths for which `impl SmallUnsigned for uN` is compiled    *)
(* (the impl for u8 carries no cfg attribute).                             *)
UnsignedImplCfg(r) ==
    CASE r = U8 -> PointerWidths
      [] r = U16 -> {16, 32, 64, 128}
      [] r = U32 -> {32, 64, 128}
      [] r = U64 -> {64, 128}
      [] r = U128 -> {128}

(* <uN as SmallUnsigned>::usize(&self) on a host of pointer width h. *)
UnsignedUsize(r, self, h) == Value(AsFromUnsigned(self, NativeBytes(h)))

(* `uN::MAX as usize`, the right operand of the assert! in checked_from,   *)
(* on a host of pointer width h.                                           *)
UnsignedMaxAsUsize(r, h) == AsFromUnsigned(UMax(Bytes(r)), NativeBytes(h))

(* UnsignedCheckedFrom with the assert! dropped. *)
UnsignedCheckedFrom_NoAssert(r, num, h) == Value(AsFromUnsigned(num, Bytes(r)))

(* <uN as SmallUnsigned>::checked_from(num) on a host of pointer width h. *)
UnsignedCheckedFrom(r, num, h) ==
    IF ULe(num, UnsignedMaxAsUsize(r, h))
    THEN Value(AsFromUnsigned(num, Bytes(r)))
    ELSE Panic

\* ------------------------------------------------------------------------
\* signed.rs
\* ------------------------------------------------------------------------

(* FITS_I with the comparison against MIN dropped. *)
FITS_I_MaxOnly(val, r) ==
    ILe(AsFromSigned(val, 16), AsFromSigned(IMax(Bytes(r)), 16))

(* FITS_I with the bound widened as an unsigned integer. *)
FITS_I_ZeroExtended(val, r) ==
    /\ ILe(AsFromSigned(IMin(Bytes(r)), 16), AsFromUnsigned(val, 16))
    /\ ILe(AsFromUnsigned(val, 16), AsFromSigned(IMax(Bytes(r)), 16))

(* The five const-generic arguments small_signed! computes for a bound val *)
(* held in an isize:                                                       *)
(* (core::iN::MIN as i128 <= ($val as i128))                               *)
(*     && (($val as i128) <= (core::iN::MAX as i128)).                     *)
FITS_I(val, r) ==
    /\ ILe(AsFromSigned(IMin(Bytes(r)), 16), AsFromSigned(val, 16))
    /\ ILe(AsFromSigned(val, 16), AsFromSigned(IMax(Bytes(r)), 16))

ShrinkSigned(v) ==
    CASE v = <<TRUE, TRUE, TRUE, TRUE, TRUE>> -> Type(I8)
      [] v = <<FALSE, TRUE, TRUE, TRUE, TRUE>> -> Type(I16)
      [] v = <<FALSE, FALSE, TRUE, TRUE, TRUE>> -> Type(I32)
      [] v = <<FALSE, FALSE, FALSE, TRUE, TRUE>> -> Type(I64)
      [] v = <<FALSE, FALSE, FALSE, FALSE, TRUE>> -> Type(I128)
      [] OTHER -> CompileError

(* The const-generic argument list of the macro's expansion. *)
SignedVector(val) ==
    <<FITS_I(val, I8), FITS_I(val, I16), FITS_I(val, I32),
      FITS_I(val, I64), FITS_I(val, I128)>>

small_signed(val) == ShrinkSigned(SignedVector(val))

(* SignedLabelCond with the comparison against MIN dropped. *)
SignedLabelCond_MaxOnly(num, n) ==
    ILe(AsFromSigned(num, 16), AsFromSigned(IMax(n), 16))

(* SignedLabelCond with the comparison against MIN made strict. *)
SignedLabelCond_StrictMin(num, n) ==
    /\ ~ILe(AsFromSigned(num, 16), AsFromSigned(IMin(n), 16))
    /\ ILe(AsFromSigned(num, 16), AsFromSigned(IMax(n), 16))

(* A branch condition of SmallSignedLabel::new, for the primitive of n     *)
(* bytes: (core::iN::MIN as i128 <= (num as i128))                         *)
(*            && ((num as i128) <= (core::iN::MAX as i128)).               *)
SignedLabelCond(num, n) ==
    /\ ILe(AsFromSigned(IMin(n), 16), AsFromSigned(num, 16))
    /\ ILe(AsFromSigned(num, 16), AsFromSigned(IMax(n), 16))

SmallSignedLabelNew(num) ==
    IF SignedLabelCond(num, 1) THEN Label(I8)
    ELSE IF SignedLabelCond(num, 2) THEN Label(I16)
    ELSE IF SignedLabelCond(num, 4) THEN Label(I32)
    ELSE IF SignedLabelCond(num, 8) THEN Label(I64)
    ELSE Label(I128)

(* <isize as SmallSigned>::isize(&self). *)
NativeIsize(self) == Value(self)

(* <isize as SmallSigned>::checked_from(num). *)
NativeSignedCheckedFrom(num) == Value(num)

(* SignedImplCfg with every cfg attribute removed. *)
SignedImplCfg_All(r) == PointerWidths

(* The pointer widths for which `impl SmallSigned for iN` is compiled. *)
SignedImplCfg(r) ==
    CASE r = I8 -> PointerWidths
      [] r = I16 -> {16, 32, 64, 128}
      [] r = I32 -> {32, 64, 128}
      [] r = I64 -> {64, 128}
      [] r = I128 -> {128}

(* <iN as SmallSigned>::isize(&self) on a host of pointer width h. *)
SignedIsize(r, self, h) == Value(AsFromSigned(self, NativeBytes(h)))

(* `iN::MIN as isize` and `iN::MAX as isize`, the operands of the assert!  *)
(* in checked_from, on a host of pointer width h.                          *)
SignedMinAsIsize(r, h) == AsFromSigned(IMin(Bytes(r)), NativeBytes(h))
SignedMaxAsIsize(r, h) == AsFromSigned(IMax(Bytes(r)), NativeBytes(h))

(* <iN as SmallSigned>::checked_from(num) on a host of pointer width h.    *)
(* The impl for i128 ends in `num as i28`: no such type exists, so the     *)
(* function has no compiled body and yields no value for any input.        *)
SignedCheckedFrom(r, num, h) ==
    IF r = I128 THEN CompileError
    ELSE IF /\ ILe(SignedMinAsIsize(r, h), num)
            /\ ILe(num, SignedMaxAsIsize(r, h))
    THEN Value(AsFromSigned(num, Bytes(r)))
    ELSE Panic

\* ------------------------------------------------------------------------
\* lib.rs: the cfg-gated generation of the two macros
\* ------------------------------------------------------------------------

(* The pointer widths for which the predicate of rung r is a comparison;   *)
(* for the others cfg! is false and the predicate is the literal true.     *)
(* The predicate of the first rung carries no cfg!.                        *)
LibUnsignedCfg(r) ==
    CASE r = U8 -> PointerWidths
      [] r = U16 -> {16, 32, 64, 128}
      [] r = U32 -> {32, 64, 128}
      [] r = U64 -> {64, 128}
      [] r = U128 -> {128}

(* $max <= (core::uN::MAX as usize), or true. *)
LIB_FITS_U(max, r, h) ==
    IF h \in LibUnsignedCfg(r)
    THEN ULe(max, AsFromUnsigned(UMax(Bytes(r)), NativeBytes(h)))
    ELSE TRUE

LibUnsignedVector(max, h) ==
    <<LIB_FITS_U(max, U8, h), LIB_FITS_U(max, U16, h), LIB_FITS_U(max, U32, h),
      LIB_FITS_U(max, U64, h), LIB_FITS_U(max, U128, h)>>

(* The comparisons are made in usize, so a bound of another integer type   *)
(* (or a literal that no usize holds) does not compile. The impls of       *)
(* ShrinkUnsigned in lib.rs are those of unsigned.rs.                      *)
lib_small_unsigned(max, h) ==
    IF Len(max) # NativeBytes(h) THEN CompileError
    ELSE ShrinkUnsigned(LibUnsignedVector(max, h))

(* LibSignedCfg with every predicate compared, none forced. *)
LibSignedCfg_All(r) == PointerWidths

LibSignedCfg(r) ==
    CASE r = I8 -> PointerWidths
      [] r = I16 -> {16, 32, 64, 128}
      [] r = I32 -> {32, 64, 128}
      [] r = I64 -> {64, 128}
      [] r = I128 -> {128}

(* (core::iN::MIN as isize <= $val) && ($val <= (core::iN::MAX as isize)), *)
(* or true.                                                                *)
LIB_FITS_I(val, r, h) ==
    IF h \in LibSignedCfg(r)
    THEN /\ ILe(AsFromSigned(IMin(Bytes(r)), NativeBytes(h)), val)
         /\ ILe(val, AsFromSigned(IMax(Bytes(r)), NativeBytes(h)))
    ELSE TRUE

LibSignedVector(val, h) ==
    <<LIB_FITS_I(val, I8, h), LIB_FITS_I(val, I16, h), LIB_FITS_I(val, I32, h),
      LIB_FITS_I(val, I64, h), LIB_FITS_I(val, I128, h)>>

lib_small_signed(val, h) ==
    IF Len(val) # NativeBytes(h) THEN CompileError
    ELSE ShrinkSigned(LibSignedVector(val, h))

(* Sizes in bytes of the integer types wider than the host's usize: a      *)
(* bound may be a constant or a literal of such a type.                    *)
WiderTypes(h) == {n \in {2, 4, 8, 16} : n > NativeBytes(h)}

\* ------------------------------------------------------------------------
\* The state machine: each step is one use of the crate on the host
\* ------------------------------------------------------------------------

Init ==
    /\ host \in PointerWidths
    /\ op = "none"
    /\ rung = 0
    /\ arg = <<>>
    /\ res = NoResult
    /\ bound = <<>>

SmallUnsignedMacro ==
    /\ op = "none"
    /\ \E max \in UValues(NativeBytes(host)) :
           /\ op' = "small_unsigned"
           /\ rung' = 0
           /\ arg' = max
           /\ res' = small_unsigned(max)
           /\ UNCHANGED <<host, bound>>

SmallUnsignedLabel ==
    /\ op = "none"
    /\ \E num \in UValues(NativeBytes(host)) :
           /\ op' = "SmallUnsignedLabel::new"
           /\ rung' = 0
           /\ arg' = num
           /\ res' = SmallUnsignedLabelNew(num)
           /\ UNCHANGED <<host, bound>>

Usize ==
    /\ op = "none"
    /\ \E r \in Rungs :
           /\ host \in UnsignedImplCfg(r)
           /\ \E self \in UValues(Bytes(r)) :
               /\ op' = "usize"
               /\ rung' = r
               /\ arg' = self
               /\ res' = UnsignedUsize(r, self, host)
           /\ UNCHANGED <<host, bound>>

UnsignedChecked ==
    /\ op = "none"
    /\ \E r \in Rungs :
           /\ host \in UnsignedImplCfg(r)
           /\ \E num \in UValues(NativeBytes(host)) :
               /\ op' = "SmallUnsigned::checked_from"
               /\ rung' = r
               /\ arg' = num
               /\ res' = UnsignedCheckedFrom(r, num, host)
           /\ UNCHANGED <<host, bound>>

(* A value is stored in the type selected for a bound, as Arena::new does  *)
(* with U = small_unsigned!(N): U::checked_from(i) for an index i of the   *)
(* collection of capacity N.                                               *)
StoreInSelected ==
    /\ op = "small_unsigned"
    /\ res.kind = "type"
    /\ host \in UnsignedImplCfg(res.rung)
    /\ \E v \in {x \in UValues(NativeBytes(host)) : ULe(x, arg)} :
           /\ op' = "SmallUnsigned::checked_from"
           /\ rung' = res.rung
           /\ arg' = v
           /\ res' = UnsignedCheckedFrom(res.rung, v, host)
           /\ bound' = arg
           /\ UNCHANGED host

SmallSignedMacro ==
    /\ op = "none"
    /\ \E val \in IValues(NativeBytes(host)) :
           /\ op' = "small_signed"
           /\ rung' = 0
           /\ arg' = val
           /\ res' = small_signed(val)
           /\ UNCHANGED <<host, bound>>

SmallSignedLabel ==
    /\ op = "none"
    /\ \E num \in IValues(NativeBytes(host)) :
           /\ op' = "SmallSignedLabel::new"
           /\ rung' = 0
           /\ arg' = num
           /\ res' = SmallSignedLabelNew(num)
           /\ UNCHANGED <<host, bound>>

Isize ==
    /\ op = "none"
    /\ \E r \in Rungs :
           /\ host \in SignedImplCfg(r)
           /\ \E self \in IValues(Bytes(r)) :
               /\ op' = "isize"
               /\ rung' = r
               /\ arg' = self
               /\ res' = SignedIsize(r, self, host)
           /\ UNCHANGED <<host, bound>>

SignedChecked ==
    /\ op = "none"
    /\ \E r \in Rungs :
           /\ host \in SignedImplCfg(r)
           /\ \E num \in IValues(NativeBytes(host)) :
               /\ op' = "SmallSigned::checked_from"
               /\ rung' = r
               /\ arg' = num
               /\ res' = SignedCheckedFrom(r, num, host)
           /\ UNCHANGED <<host, bound>>

(* The impls of the two traits for the native types themselves. *)
NativeUnsigned ==
    /\ op = "none"
    /\ \E n \in UValues(NativeBytes(host)) :
           /\ \/ op' = "usize::usize" /\ res' = NativeUsize(n)
              \/ op' = "usize::checked_from" /\ res' = NativeUnsignedCheckedFrom(n)
           /\ rung' = USIZE
           /\ arg' = n
           /\ UNCHANGED <<host, bound>>

NativeSigned ==
    /\ op = "none"
    /\ \E n \in IValues(NativeBytes(host)) :
           /\ \/ op' = "isize::isize" /\ res' = NativeIsize(n)
              \/ op' = "isize::checked_from" /\ res' = NativeSignedCheckedFrom(n)
           /\ rung' = ISIZE
           /\ arg' = n
           /\ UNCHANGED <<host, bound>>

(* small_unsigned! of unsigned.rs on a bound of a type wider than usize. *)
SmallUnsignedMacroWide ==
    /\ op = "none"
    /\ \E n \in WiderTypes(host) : \E max \in UValues(n) :
           /\ op' = "small_unsigned:wide"
           /\ rung' = 0
           /\ arg' = max
           /\ res' = small_unsigned(max)
           /\ UNCHANGED <<host, bound>>

(* small_signed! of signed.rs on a bound of a type wider than isize. *)
SmallSignedMacroWide ==
    /\ op = "none"
    /\ \E n \in WiderTypes(host) : \E val \in IValues(n) :
           /\ op' = "small_signed:wide"
           /\ rung' = 0
           /\ arg' = val
           /\ res' = small_signed(val)
           /\ UNCHANGED <<host, bound>>

(* small_unsigned! of lib.rs, on a usize bound or on a wider one. *)
LibSmallUnsignedMacro ==
    /\ op = "none"
    /\ \E n \in {NativeBytes(host)} \cup WiderTypes(host) : \E max \in UValues(n) :
           /\ op' = "lib::small_unsigned"
           /\ rung' = 0
           /\ arg' = max
           /\ res' = lib_small_unsigned(max, host)
           /\ UNCHANGED <<host, bound>>

(* small_signed! of lib.rs, on an isize bound or on a wider one. *)
LibSmallSignedMacro ==
    /\ op = "none"
    /\ \E n \in {NativeBytes(host)} \cup WiderTypes(host) : \E val \in IValues(n) :
           /\ op' = "lib::small_signed"
           /\ rung' = 0
           /\ arg' = val
           /\ res' = lib_small_signed(val, host)
           /\ UNCHANGED <<host, bound>>

(* The call returns to its caller; the crate keeps nothing between calls. *)
Return ==
    /\ op # "none"
    /\ op' = "none"
    /\ rung' = 0
    /\ arg' = <<>>
    /\ res' = NoResult
    /\ bound' = <<>>
    /\ UNCHANGED host

Next ==
    \/ SmallUnsignedMacro
    \/ SmallUnsignedLabel
    \/ Usize
    \/ UnsignedChecked
    \/ StoreInSelected
    \/ SmallSignedMacro
    \/ SmallSignedLabel
    \/ Isize
    \/ SignedChecked
    \/ NativeUnsigned
    \/ NativeSigned
    \/ SmallUnsignedMacroWide
    \/ SmallSignedMacroWide
    \/ LibSmallUnsignedMacro
    \/ LibSmallSignedMacro
    \/ Return

Spec == Init /\ [][Next]_vars

\* ------------------------------------------------------------------------
\* Properties
\* ------------------------------------------------------------------------

(* Range membership stated on the bit pattern, independently of the        *)
(* comparisons the crate makes: an unsigned x is at most the MAX of the    *)
(* n-byte primitive iff every byte above the n-th is zero; a signed x lies *)
(* in [MIN, MAX] of the n-byte primitive iff x is the sign extension of    *)
(* its low n bytes.                                                        *)
InRangeU(x, n) == \A i \in (n + 1)..Len(x) : x[i] = 0
InRangeI(x, n) ==
    n < Len(x) => \A i \in (n + 1)..Len(x) : x[i] = (IF x[n] >= 128 THEN 255 ELSE 0)

(* The numeric value of x as its shortest representation. *)
NumU(x) == SubSeq(x, 1, CHOOSE n \in 1..Len(x) :
                 InRangeU(x, n) /\ \A m \in 1..(n - 1) : ~InRangeU(x, m))
NumI(x) == SubSeq(x, 1, CHOOSE n \in 1..Len(x) :
                 InRangeI(x, n) /\ \A m \in 1..(n - 1) : ~InRangeI(x, m))

IsZero(x) == \A i \in 1..Len(x) : x[i] = 0
Positive(x) == ~IsNeg(x) /\ ~IsZero(x)

(* x = MAX(W) + 1 for a rung W narrower than x's own type: 128, 32768,     *)
(* 2^31, 2^63.                                                             *)
AboveRungMax(x, r) ==
    /\ Bytes(r) < Len(x)
    /\ x = [i \in 1..Len(x) |-> IF i = Bytes(r) THEN 128 ELSE 0]

NativeU(t) == [i \in 1..NativeBytes(host) |-> IF i <= Len(t) THEN t[i] ELSE 0]

(* C1: small_unsigned!(b), for every bound b of the host's usize, is the   *)
(* narrowest rung W with b <= MAX(W): b <= MAX(W) and b > MAX(W') for      *)
(* every narrower rung W'.                                                 *)
C1_NarrowestUnsigned ==
    op = "small_unsigned" =>
        /\ res.kind = "type"
        /\ res.rung \in Rungs
        /\ InRangeU(arg, Bytes(res.rung))
        /\ \A r \in 1..(res.rung - 1) : ~InRangeU(arg, Bytes(r))
        /\ (arg = NativeU(<<200>>) => res = Type(U8))
        /\ (arg \in {NativeU(<<244, 1>>), NativeU(<<0, 2>>)} => res = Type(U16))

(* small_unsigned!(4_300_000_000) is u64 on a 64-bit host. *)
C1_Witness ==
    /\ host = 64
    /\ op = "small_unsigned"
    /\ arg = <<0, 203, 76, 0, 1, 0, 0, 0>>
    /\ res = Type(U64)

(* C2: small_signed!(b), for every bound b of the host's isize of either   *)
(* sign, is the narrowest rung W with MIN(W) <= b <= MAX(W): b is in the   *)
(* range of W and outside the range of every narrower rung.                *)
C2_NarrowestSigned ==
    op = "small_signed" =>
        /\ res.kind = "type"
        /\ res.rung \in Rungs
        /\ InRangeI(arg, Bytes(res.rung))
        /\ \A r \in 1..(res.rung - 1) : ~InRangeI(arg, Bytes(r))

(* small_signed!(-2_200_000_000) is i64 on a 64-bit host. *)
C2_Witness ==
    /\ host = 64
    /\ op = "small_signed"
    /\ arg = Neg(<<0, 86, 33, 131, 0, 0, 0, 0>>)
    /\ IsNeg(arg)
    /\ res = Type(I64)

(* C3 as stated: for every positive bound v, small_signed!(v) and          *)
(* small_signed!(-v) are the same type.                                    *)
C3_SymmetricEverywhere ==
    (op = "small_signed" /\ Positive(arg)) => small_signed(Neg(arg)) = res

(* C3 amended: for every positive bound v other than MAX(W) + 1 of a rung  *)
(* W, small_signed!(v) and small_signed!(-v) are the same type; at         *)
(* v = MAX(W) + 1, small_signed!(-v) is W (-v is MIN(W)) and               *)
(* small_signed!(v) is the next wider rung.                                *)
C3_SymmetricExceptAboveMax ==
    (op = "small_signed" /\ Positive(arg)) =>
        /\ (\A r \in Rungs : ~AboveRungMax(arg, r)) => small_signed(Neg(arg)) = res
        /\ \A r \in Rungs : AboveRungMax(arg, r) =>
               /\ res = Type(r + 1)
               /\ small_signed(Neg(arg)) = Type(r)

(* small_signed!(500) is i16, as small_signed!(-500). *)
C3_Witness ==
    /\ op = "small_signed"
    /\ arg = NativeU(<<244, 1>>)
    /\ res = Type(I16)
    /\ small_signed(Neg(arg)) = Type(I16)

(* C4: for every usize b, SmallUnsignedLabel::new(b) names the width of    *)
(* the type small_unsigned!(b) resolves to.                                *)
C4_UnsignedLabelAgreesWithType ==
    /\ op = "SmallUnsignedLabel::new" =>
           res.kind = "label" /\ small_unsigned(arg) = Type(res.rung)
    /\ op = "small_unsigned" =>
           res.kind = "type" /\ SmallUnsignedLabelNew(arg) = Label(res.rung)

(* SmallUnsignedLabel::new(4294967296) is U64, one above u32::MAX. *)
C4_Witness ==
    /\ host = 64
    /\ op = "SmallUnsignedLabel::new"
    /\ arg = <<0, 0, 0, 0, 1, 0, 0, 0>>
    /\ res = Label(U64)
    /\ small_unsigned(arg) = Type(U64)

(* C5: for every isize b, SmallSignedLabel::new(b) names the width of the  *)
(* type small_signed!(b) resolves to.                                      *)
C5_SignedLabelAgreesWithType ==
    /\ op = "SmallSignedLabel::new" =>
           res.kind = "label" /\ small_signed(arg) = Type(res.rung)
    /\ op = "small_signed" =>
           res.kind = "type" /\ SmallSignedLabelNew(arg) = Label(res.rung)

(* SmallSignedLabel::new(i16::MIN - 1) is I32, as small_signed!. *)
C5_Witness ==
    /\ host = 32
    /\ op = "SmallSignedLabel::new"
    /\ arg = <<255, 127, 255, 255>>
    /\ res = Label(I32)
    /\ small_signed(arg) = Type(I32)

(* C6: SmallSignedLabel::new(n) returns, for every isize n of either sign, *)
(* a label, and it is the label of the smallest signed primitive whose     *)
(* range contains n.                                                       *)
C6_SignedLabelNarrowest ==
    op = "SmallSignedLabel::new" =>
        /\ res.kind = "label"
        /\ res.rung \in Rungs
        /\ InRangeI(arg, Bytes(res.rung))
        /\ \A r \in 1..(res.rung - 1) : ~InRangeI(arg, Bytes(r))
        /\ (arg \in {NativeU(<<100>>), Neg(NativeU(<<100>>))} => res = Label(I8))
        /\ (arg \in {NativeU(<<150>>), Neg(NativeU(<<150>>)),
                     NativeU(<<244, 1>>), Neg(NativeU(<<244, 1>>))}
               => res = Label(I16))

(* SmallSignedLabel::new(-50_000) is I32. *)
C6_Witness ==
    /\ op = "SmallSignedLabel::new"
    /\ host = 64
    /\ arg = Neg(<<80, 195, 0, 0, 0, 0, 0, 0>>)
    /\ res = Label(I32)

(* C7: for every rung W implemented on the host and every native value v   *)
(* outside [MIN(W), MAX(W)], W::checked_from(v) panics; it returns no      *)
(* value.                                                                  *)
C7_OutOfRangePanics ==
    /\ (op = "SmallUnsigned::checked_from" /\ ~InRangeU(arg, Bytes(rung)))
           => res = Panic
    /\ (op = "SmallSigned::checked_from" /\ ~InRangeI(arg, Bytes(rung)))
           => res = Panic

(* u8::checked_from(300) panics. *)
C7_Witness ==
    /\ op = "SmallUnsigned::checked_from"
    /\ rung = U8
    /\ arg = NativeU(<<44, 1>>)
    /\ res = Panic

(* C8: for every rung W implemented on the host and every value w of W,    *)
(* W::checked_from(w.usize()) (resp. W::checked_from(w.isize())) does not  *)
(* fail and is w.                                                          *)
C8_RoundTrip ==
    /\ op = "usize" =>
           /\ res.kind = "value"
           /\ UnsignedCheckedFrom(rung, res.val, host) = Value(arg)
    /\ op = "isize" =>
           /\ res.kind = "value"
           /\ SignedCheckedFrom(rung, res.val, host) = Value(arg)

(* C9: for every host pointer width, every rung W whose impl is compiled   *)
(* for it and every value w of W, w.usize() (resp. w.isize()) returns a    *)
(* native integer of the same numeric value, the sign kept; it never       *)
(* fails.                                                                  *)
C9_UpcastLossless ==
    /\ op = "usize" =>
           /\ res.kind = "value"
           /\ Len(res.val) = NativeBytes(host)
           /\ NumU(res.val) = NumU(arg)
    /\ op = "isize" =>
           /\ res.kind = "value"
           /\ Len(res.val) = NativeBytes(host)
           /\ IsNeg(res.val) = IsNeg(arg)
           /\ NumI(res.val) = NumI(arg)

(* (-500 as i16).isize() on a 64-bit host is -500. *)
C9_Witness ==
    /\ host = 64
    /\ op = "isize"
    /\ rung = I16
    /\ arg = <<12, 254>>
    /\ res = Value(<<12, 254, 255, 255, 255, 255, 255, 255>>)

(* C10: for every implemented rung W and every native n with              *)
(* MIN(W) <= n <= MAX(W), W::checked_from(n) returns the W value equal to  *)
(* n, and its usize() (resp. isize()) is n again.                          *)
C10_InRangeDowncastKeepsValue ==
    /\ (op = "SmallUnsigned::checked_from" /\ InRangeU(arg, Bytes(rung))) =>
           /\ res.kind = "value"
           /\ Len(res.val) = Bytes(rung)
           /\ NumU(res.val) = NumU(arg)
           /\ UnsignedUsize(rung, res.val, host) = Value(arg)
    /\ (op = "SmallSigned::checked_from" /\ InRangeI(arg, Bytes(rung))) =>
           /\ res.kind = "value"
           /\ Len(res.val) = Bytes(rung)
           /\ NumI(res.val) = NumI(arg)
           /\ SignedIsize(rung, res.val, host) = Value(arg)

(* C11: for every bound b of the host's usize and every native v with      *)
(* 0 <= v <= b, the type T = small_unsigned!(b) holds v:                   *)
(* T::checked_from(v) does not panic and T::checked_from(v).usize() is v.  *)
C11_SelectedTypeHoldsRange ==
    (op = "SmallUnsigned::checked_from" /\ bound # <<>>) =>
        /\ small_unsigned(bound) = Type(rung)
        /\ res.kind = "value"
        /\ UnsignedUsize(rung, res.val, host) = Value(arg)

(* With T = small_unsigned!(2^32 + 1) = u64 on a 64-bit host,              *)
(* T::checked_from(2^32) is 2^32.                                          *)
C11_Witness ==
    /\ host = 64
    /\ op = "SmallUnsigned::checked_from"
    /\ bound = <<1, 0, 0, 0, 1, 0, 0, 0>>
    /\ rung = U64
    /\ arg = <<0, 0, 0, 0, 1, 0, 0, 0>>
    /\ res = Value(arg)

UnsignedMacroOps == {"small_unsigned", "small_unsigned:wide", "lib::small_unsigned"}
SignedMacroOps == {"small_signed", "small_signed:wide", "lib::small_signed"}

(* C12: on every host pointer width H, for every bound of u128 (resp.      *)
(* i128) given to small_unsigned! (resp. small_signed!), the type resolved *)
(* is never wider than H bits, and a bound that needs more than H bits is  *)
(* rejected at compile time.                                               *)
C12_NeverWiderThanHost ==
    /\ op \in UnsignedMacroOps \cup SignedMacroOps =>
           /\ res.kind \in {"type", "compile_error"}
           /\ res.kind = "type" => Bytes(res.rung) <= NativeBytes(host)
    /\ (op \in UnsignedMacroOps /\ ~InRangeU(arg, NativeBytes(host)))
           => res = CompileError
    /\ (op \in SignedMacroOps /\ ~InRangeI(arg, NativeBytes(host)))
           => res = CompileError

(* C13: SmallUnsignedLabel::new never returns USIZE and                    *)
(* SmallSignedLabel::new never returns ISIZE, whatever the input.          *)
C13_NativeLabelNeverComputed ==
    /\ op = "SmallUnsignedLabel::new" => (res.kind = "label" /\ res.rung # USIZE)
    /\ op = "SmallSignedLabel::new" => (res.kind = "label" /\ res.rung # ISIZE)

(* SmallUnsignedLabel::new(usize::MAX) on a 32-bit host is U32, not USIZE. *)
C13_Witness ==
    /\ host = 32
    /\ op = "SmallUnsignedLabel::new"
    /\ arg = <<255, 255, 255, 255>>
    /\ res = Label(U32)

(* C14: on the native types the conversions are the identity and total:    *)
(* usize::checked_from(n) = n and n.usize() = n for every usize n,         *)
(* isize::checked_from(n) = n and n.isize() = n for every isize n; none    *)
(* fails.                                                                  *)
C14_NativeIdentity ==
    op \in {"usize::usize", "usize::checked_from",
            "isize::isize", "isize::checked_from"} =>
        /\ res.kind = "value"
        /\ res.val = arg
        /\ Len(res.val) = NativeBytes(host)

(* usize::checked_from(usize::MAX) on a 64-bit host is usize::MAX. *)
C14_Witness ==
    /\ host = 64
    /\ op = "usize::checked_from"
    /\ arg = <<255, 255, 255, 255, 255, 255, 255, 255>>
    /\ res = Value(arg)

(* Whenever a rung's predicate is true so is every wider rung's, and the   *)
(* last is true.                                                           *)
Monotone(v) ==
    /\ \A i \in 1..5 : \A j \in (i + 1)..5 : v[i] => v[j]
    /\ v[5]

(* The vector with k leading false values, then all true. *)
Staircase(k) == [i \in 1..5 |-> i > k]

(* C15: for every bound, the five booleans small_unsigned! and             *)
(* small_signed! compute are monotone (a true predicate is followed only   *)
(* by true ones) and FITS_128 is true.                                     *)
C15_VectorMonotone ==
    /\ op \in {"small_unsigned", "small_unsigned:wide"} =>
           Monotone(UnsignedVector(arg))
    /\ op \in {"small_signed", "small_signed:wide"} =>
           Monotone(SignedVector(arg))

(* small_signed!(-2_200_000_000) computes (false, false, false, true,      *)
(* true).                                                                  *)
C15_Witness ==
    /\ host = 64
    /\ op = "small_signed"
    /\ arg = Neg(<<0, 86, 33, 131, 0, 0, 0, 0>>)
    /\ SignedVector(arg) = <<FALSE, FALSE, FALSE, TRUE, TRUE>>

(* C16: the impls of ShrinkUnsigned and of ShrinkSigned are keyed on       *)
(* exactly the vectors of k leading false values then all true, k in 0..4, *)
(* the impl for k being the (k+1)-th narrowest rung; every vector a macro  *)
(* computes is one of them, so it has exactly one impl and is never        *)
(* all-false.                                                              *)
C16_OneImplPerVector ==
    /\ \A v \in [1..5 -> BOOLEAN] :
           /\ (ShrinkUnsigned(v) # CompileError) <=> (\E k \in 0..4 : v = Staircase(k))
           /\ (ShrinkSigned(v) # CompileError) <=> (\E k \in 0..4 : v = Staircase(k))
    /\ \A k \in 0..4 :
           /\ ShrinkUnsigned(Staircase(k)) = Type(k + 1)
           /\ ShrinkSigned(Staircase(k)) = Type(k + 1)
    /\ op \in {"small_unsigned", "small_unsigned:wide"} =>
           /\ \E k \in 0..4 : UnsignedVector(arg) = Staircase(k)
           /\ res.kind = "type"
    /\ op \in {"small_signed", "small_signed:wide"} =>
           /\ \E k \in 0..4 : SignedVector(arg) = Staircase(k)
           /\ res.kind = "type"

(* small_unsigned!(4_300_000_000) computes the vector of three leading     *)
(* false values, whose impl is u64.                                        *)
C16_Witness ==
    /\ host = 64
    /\ op = "small_unsigned"
    /\ arg = <<0, 203, 76, 0, 1, 0, 0, 0>>
    /\ UnsignedVector(arg) = Staircase(3)
    /\ res = Type(U64)

(* C17: on a host of pointer width H, the predicate of every rung wider    *)
(* than H is true whatever bound is given to small_unsigned! or            *)
(* small_signed!.                                                          *)
C17_WiderRungsForcedTrue ==
    \A r \in {q \in Rungs : Bytes(q) > NativeBytes(host)} :
        /\ op \in {"small_unsigned", "small_unsigned:wide"} => UnsignedVector(arg)[r]
        /\ op \in {"small_signed", "small_signed:wide"} => SignedVector(arg)[r]
        /\ (op = "lib::small_unsigned" /\ res.kind = "type")
               => LibUnsignedVector(arg, host)[r]
        /\ (op = "lib::small_signed" /\ res.kind = "type")
               => LibSignedVector(arg, host)[r]

(* C18: no range comparison wraps. In W::checked_from, on every host for   *)
(* which the impl of W is compiled, MIN(W) and MAX(W) cast to the native   *)
(* width keep their numeric values and each comparison of the assert! has  *)
(* the result of the comparison of the numbers; in the macros and in       *)
(* Label::new a native bound cast to 128 bits keeps its numeric value and  *)
(* each rung's comparison has the result of the comparison of the numbers. *)
C18_ComparisonsExact ==
    /\ op = "SmallUnsigned::checked_from" =>
           /\ NumU(UnsignedMaxAsUsize(rung, host)) = NumU(UMax(Bytes(rung)))
           /\ ULe(arg, UnsignedMaxAsUsize(rung, host)) <=> InRangeU(arg, Bytes(rung))
    /\ op = "SmallSigned::checked_from" =>
           /\ NumI(SignedMinAsIsize(rung, host)) = NumI(IMin(Bytes(rung)))
           /\ NumI(SignedMaxAsIsize(rung, host)) = NumI(IMax(Bytes(rung)))
           /\ ILe(SignedMinAsIsize(rung, host), arg)
                  <=> (IsNeg(arg) => InRangeI(arg, Bytes(rung)))
           /\ ILe(arg, SignedMaxAsIsize(rung, host))
                  <=> (~IsNeg(arg) => InRangeI(arg, Bytes(rung)))
    /\ op \in {"small_unsigned", "SmallUnsignedLabel::new"} =>
           /\ NumU(AsFromUnsigned(arg, 16)) = NumU(arg)
           /\ \A r \in Rungs :
                  /\ FITS_U(arg, r) <=> InRangeU(arg, Bytes(r))
                  /\ UnsignedLabelCond(arg, Bytes(r)) <=> InRangeU(arg, Bytes(r))
    /\ op \in {"small_signed", "SmallSignedLabel::new"} =>
           /\ NumI(AsFromSigned(arg, 16)) = NumI(arg)
           /\ \A r \in Rungs :
                  /\ FITS_I(arg, r) <=> InRangeI(arg, Bytes(r))
                  /\ SignedLabelCond(arg, Bytes(r)) <=> InRangeI(arg, Bytes(r))

(* On a 32-bit host i32::checked_from(i32::MIN), the widest compiled impl  *)
(* at its lower limit, passes the assert!.                                 *)
C18_Witness ==
    /\ host = 32
    /\ op = "SmallSigned::checked_from"
    /\ rung = I32
    /\ arg = IMin(4)
    /\ SignedMinAsIsize(rung, host) = arg
    /\ res = Value(arg)

(* C19: for every isize bound b, small_signed!(b) and small_signed!(-b-1)  *)
(* resolve to the same type and SmallSignedLabel::new(b) equals            *)
(* SmallSignedLabel::new(-b-1).                                            *)
C19_ComplementSymmetry ==
    /\ op = "small_signed" =>
           /\ res.kind = "type"
           /\ small_signed(Complement(arg)) = res
    /\ op = "SmallSignedLabel::new" =>
           /\ res.kind = "label"
           /\ SmallSignedLabelNew(Complement(arg)) = res

(* small_signed!(32767) is i16, and so is small_signed!(-32768). *)
C19_Witness ==
    /\ host = 64
    /\ op = "small_signed"
    /\ arg = AsFromSigned(IMax(2), 8)
    /\ Complement(arg) = AsFromSigned(IMin(2), 8)
    /\ res = Type(I16)
    /\ small_signed(Complement(arg)) = Type(I16)

(* C20: on every host and for every bound of the host's usize (isize), the *)
(* cfg-gated small_unsigned! (small_signed!) of lib.rs computes the same   *)
(* five booleans, and selects the same type, as the 128-bit-widening macro *)
(* of unsigned.rs (signed.rs).                                             *)
C20_GenerationsAgree ==
    /\ (op \in {"small_unsigned", "lib::small_unsigned"}
            /\ Len(arg) = NativeBytes(host)) =>
           /\ LibUnsignedVector(arg, host) = UnsignedVector(arg)
           /\ lib_small_unsigned(arg, host) = small_unsigned(arg)
           /\ res = small_unsigned(arg)
    /\ (op \in {"small_signed", "lib::small_signed"}
            /\ Len(arg) = NativeBytes(host)) =>
           /\ LibSignedVector(arg, host) = SignedVector(arg)
           /\ lib_small_signed(arg, host) = small_signed(arg)
           /\ res = small_signed(arg)

(* On a 32-bit host the lib.rs small_signed!(-50_000) compares against     *)
(* i8, i16 and i32 only, its last two booleans being the literal true, and *)
(* selects i32 as the signed.rs macro does.                                *)
C20_Witness ==
    /\ host = 32
    /\ op = "lib::small_signed"
    /\ arg = Neg(<<80, 195, 0, 0>>)
    /\ LibSignedVector(arg, host) = <<FALSE, FALSE, TRUE, TRUE, TRUE>>
    /\ res = Type(I32)
    /\ small_signed(arg) = res

(* C21: for every implemented rung W and every native v, W::checked_from(v) *)
(* returns a value if and only if Label::new(v) <= L(W) in the derived      *)
(* order of the label enum, for the unsigned and for the signed rungs.      *)
C21_CheckedFromIffLabelLe ==
    /\ op = "SmallUnsigned::checked_from" =>
           (res.kind = "value" <=> LabelLe(SmallUnsignedLabelNew(arg), Label(rung)))
    /\ op = "SmallSigned::checked_from" =>
           (res.kind = "value" <=> LabelLe(SmallSignedLabelNew(arg), Label(rung)))

(* C22: labels are monotone in the bound under the derived order: for      *)
(* usize a <= b, SmallUnsignedLabel::new(a) <= SmallUnsignedLabel::new(b); *)
(* for isize 0 <= a <= b, SmallSignedLabel::new(a) <=                      *)
(* SmallSignedLabel::new(b); for isize a <= b < 0,                         *)
(* SmallSignedLabel::new(a) >= SmallSignedLabel::new(b).                   *)
C22_LabelMonotone ==
    /\ op = "SmallUnsignedLabel::new" =>
           \A a \in UValues(NativeBytes(host)) :
               ULe(a, arg) => LabelLe(SmallUnsignedLabelNew(a), res)
    /\ (op = "SmallSignedLabel::new" /\ ~IsNeg(arg)) =>
           \A a \in IValues(NativeBytes(host)) :
               (~IsNeg(a) /\ ILe(a, arg)) => LabelLe(SmallSignedLabelNew(a), res)
    /\ (op = "SmallSignedLabel::new" /\ IsNeg(arg)) =>
           \A a \in IValues(NativeBytes(host)) :
               ILe(a, arg) => LabelLe(res, SmallSignedLabelNew(a))

(* SmallSignedLabel::new(-129) is I16, and new(-32769) <= -129 is I32. *)
C22_Witness ==
    /\ host = 64
    /\ op = "SmallSignedLabel::new"
    /\ arg = AddSmall(AsFromSigned(IMin(1), 8), -1)
    /\ res = Label(I16)
    /\ AddSmall(AsFromSigned(IMin(2), 8), -1) \in IValues(NativeBytes(host))
    /\ ILe(AddSmall(AsFromSigned(IMin(2), 8), -1), arg)
    /\ SmallSignedLabelNew(AddSmall(AsFromSigned(IMin(2), 8), -1)) = Label(I32)

(* C23: on a host of pointer width H, SmallUnsignedLabel::new of a usize   *)
(* and SmallSignedLabel::new of an isize return a label of a rung no wider *)
(* than H, a rung whose conversion trait impl is compiled for that host.   *)
C23_LabelWithinHost ==
    /\ op = "SmallUnsignedLabel::new" =>
           /\ res.kind = "label"
           /\ res.rung \in Rungs
           /\ 8 * Bytes(res.rung) <= host
           /\ host \in UnsignedImplCfg(res.rung)
    /\ op = "SmallSignedLabel::new" =>
           /\ res.kind = "label"
           /\ res.rung \in Rungs
           /\ 8 * Bytes(res.rung) <= host
           /\ host \in SignedImplCfg(res.rung)

(* On a 64-bit host SmallUnsignedLabel::new(usize::MAX) is U64: the final  *)
(* else branch is not taken.                                               *)
C23_Witness ==
    /\ host = 64
    /\ op = "SmallUnsignedLabel::new"
    /\ arg = UMax(8)
    /\ res = Label(U64)

====
